---- MODULE Spec2Model ----
(***************************************************************************)
(* Multi-region deployment controller with rollback                        *)
(* (controller/deploy-with-rollback.py, class Deployer).                   *)
(*                                                                         *)
(* The controller is single threaded.  Its position is pc; every external  *)
(* call (docker compose command, HTTP probe) is one step whose outcome is  *)
(* chosen by the environment.                                              *)
(***************************************************************************)
EXTENDS Integers, Sequences, FiniteSets, TLC

(* ---------------------------------------------------------------- data *)

\* self.regions, in configured order (enumerate() is 0-based: regions[i + 1]).
regions == << "region-us-west", "region-us-east", "region-eu-west", "region-ap-south" >>

\* self.port_map
port_map == [r \in {regions[k] : k \in 1..Len(regions)} |->
               CASE r = "region-us-west"  -> 8081
                 [] r = "region-us-east"  -> 8082
                 [] r = "region-eu-west"  -> 8083
                 [] r = "region-ap-south" -> 8084]

RegionSet == DOMAIN port_map

\* default of health_check's retries parameter
DefaultRetries == 3

\* retries passed by the canary loop
CanaryRetries == 1

\* range(5) of the canary loop
CanaryChecks == 5

\* largest retries argument tried when health_check is exercised on its own
MaxRetries == 4

\* Version strings seen by the controller; "None" is Python's None
\* (a body without a version field read with .get('version')).
Versions == {"v1", "v2", "v3"}
TargetVersions == {"v2", "v3"}

\* failure_rate in tenths (0 is 0.0, 5 is 0.5, 10 is 1.0)
FailureRates == {0, 5, 10}

\* str(self.failure_rate) for a float in tenths
StrRate(t) == CASE t = 0  -> "0.0"
                [] t = 5  -> "0.5"
                [] t = 10 -> "1.0"

\* Outcomes of subprocess.run: the command ran and exited 0, ran and exited
\* non-zero, or could not be run at all (OSError raised by subprocess.run).
CmdOutcomes == {"ok", "nonzero", "oserror"}

\* Responses of GET / : the call raises, the body is not JSON, or the body is a
\* JSON object whose version field is a version or is absent.
RootResponses ==
    {[kind |-> "error", version |-> "None"], [kind |-> "malformed", version |-> "None"]}
      \cup {[kind |-> "json", version |-> v] : v \in Versions \cup {"absent"}}

\* Responses of GET /health : transport error, body that is not JSON, or a JSON
\* body with an HTTP status code and a status field ("absent": no such key).
HealthResponses ==
    {[kind |-> "error", status_code |-> 0, status |-> "absent"],
     [kind |-> "malformed", status_code |-> 200, status |-> "absent"]}
      \cup {[kind |-> "json", status_code |-> c, status |-> s] :
              c \in {200, 503}, s \in {"healthy", "unhealthy", "absent"}}

\* No GET / made yet.
NoRoot == [kind |-> "none", version |-> "None"]

NoResponse == [kind |-> "none", status_code |-> 0, status |-> "absent"]

\* A start command: docker compose up ... <region> with env VERSION, FAILURE_RATE.
StartCmd(r, v, f) == [region |-> r, VERSION |-> v, FAILURE_RATE |-> f]

NoCmd == StartCmd("none", "none", "none")

\* The detection reading the field with data.get('version'), without default.
DetectWithoutDefault(resp) ==
    CASE resp.kind # "json"        -> "v1"
      [] resp.version = "absent"   -> "None"
      [] OTHER                     -> resp.version

\* _detect_current_version: data.get('version', 'v1'), 'v1' on any exception
_detect_current_version(resp) ==
    IF resp.kind = "json" /\ resp.version # "absent" THEN resp.version ELSE "v1"

\* The test of an attempt with the status code left out.
AttemptHealthyAnyCode(resp) ==
    /\ resp.kind = "json"
    /\ resp.status = "healthy"

\* The test of one health_check attempt: no exception from requests.get,
\* response.json() or data['status'], status code 200 and status "healthy".
AttemptHealthy(resp) ==
    /\ resp.kind = "json"
    /\ resp.status_code = 200
    /\ resp.status = "healthy"

(* --------------------------------------------------------------- state *)

VARIABLES
    version,            \* self.version
    failure_rate,       \* self.failure_rate (tenths)
    current_version,    \* self.current_version
    deployed_regions,   \* self.deployed_regions
    pc,                 \* position of the controller
    i,                  \* loop index of deploy()
    check,              \* loop index of the canary loop
    hcRegion,           \* health_check: region argument
    retries,            \* health_check: retries argument
    attempt,            \* health_check: loop variable
    hcCaller,           \* who called health_check: "main", "canary" or "test"
    hcResult,           \* value returned by the last health_check
    rbIdx,              \* rollback_all: position in deployed_regions
    ret,                \* result of deploy(): "none", "True", "False", "raised"
    \* ---- observation of the run (never read by the controller)
    hcProbes,           \* GET /health calls made by the current health_check
    hcDelays,           \* time.sleep(2) calls made by the current health_check
    hcLast,             \* response of the latest GET /health
    hcFails,            \* GET /health calls of the current health_check that failed
    rbCmds,             \* start commands issued by rollback_all, in order
    rbFailed,           \* regions whose rollback command did not exit 0
    rollbacks,          \* number of times rollback_all was entered
    startOK,            \* regions whose forward-pass start command exited 0
    readback,           \* per region, what its version read-back gave:
                        \* "none", "match", "mismatch" or "error"
    healthOK,           \* regions whose post-deploy health check returned True
    probed,             \* regions on which the post-deploy health check ran
    started,            \* regions that got a forward-pass start command
    canaryProbes,       \* canary health_check calls made
    canaryDelays,       \* time.sleep(2) calls of the canary loop
    canaryRegions,      \* regions that triggered the canary branch
    canaryPassed,       \* the canary loop ran to its end
    failPhase,          \* why rollback was entered: "start", "mismatch", "health", "canary"
    failIdx,            \* loop index at the time rollback was entered
    allOK,              \* every external call of deploy() so far succeeded
    lastCmd,            \* region and environment of the latest start command
    detectResp,         \* response of the GET / made by _detect_current_version
    detections,         \* number of times _detect_current_version ran
    stopped,            \* regions that got a forward-pass stop command
    stopFailedNow       \* the stop command of the current iteration did not exit 0

ctl == << version, failure_rate, current_version, deployed_regions,
          pc, i, check, rbIdx, ret >>
hc  == << hcRegion, retries, attempt, hcCaller, hcResult,
          hcProbes, hcDelays, hcLast, hcFails >>
obs == << rbCmds, rbFailed, rollbacks, startOK, readback, healthOK, probed, started,
          canaryProbes, canaryDelays, canaryRegions, canaryPassed,
          failPhase, failIdx, allOK, lastCmd,
          detectResp, detections, stopped, stopFailedNow >>
det == << detectResp, detections >>
stp == << stopped, stopFailedNow >>
vars == << ctl, hc, obs >>

\* Values shared by both initial conditions: nothing observed yet.
InitObs ==
    /\ rbCmds = << >> /\ rbFailed = {} /\ rollbacks = 0
    /\ startOK = {} /\ readback = [r \in RegionSet |-> "none"] /\ healthOK = {} /\ probed = {} /\ started = {}
    /\ canaryProbes = 0 /\ canaryDelays = 0 /\ canaryRegions = {}
    /\ canaryPassed = FALSE
    /\ failPhase = "none" /\ failIdx = -1 /\ allOK = TRUE
    /\ lastCmd = NoCmd
    /\ stopped = {} /\ stopFailedNow = FALSE

InitHc ==
    /\ hcRegion = regions[1] /\ retries = DefaultRetries /\ attempt = 0
    /\ hcCaller = "main" /\ hcResult = FALSE
    /\ hcProbes = 0 /\ hcDelays = 0 /\ hcLast = NoResponse /\ hcFails = 0

\* main() has read its arguments and is about to construct the Deployer.
Init ==
    /\ version \in TargetVersions
    /\ failure_rate \in FailureRates
    /\ deployed_regions = << >>
    /\ current_version = "unset"
    /\ detectResp = NoRoot /\ detections = 0
    /\ pc = "construct" /\ i = 0 /\ check = 0 /\ rbIdx = 0 /\ ret = "none"
    /\ InitHc
    /\ InitObs

(* ------------------------------------------------------------- helpers *)

\* The loop of deploy() walking self.regions from its end.
regionReversed == regions[Len(regions) - i]

\* The region of the current iteration of deploy()'s loop.
region == regions[i + 1]

\* An exception leaves deploy(): nothing below the raising call runs.
Raise ==
    /\ pc' = "done"
    /\ ret' = "raised"

\* Where health_check returns to.
HcReturnPc == CASE hcCaller = "main"   -> "after_hc"
                [] hcCaller = "canary" -> "after_canary"
                [] OTHER               -> "hc_returned"

\* Call health_check(r, n) on behalf of caller c.
CallHealthCheck(r, n, c) ==
    /\ pc' = "hc_attempt"
    /\ hcRegion' = r /\ retries' = n /\ attempt' = 0 /\ hcCaller' = c
    /\ hcProbes' = 0 /\ hcDelays' = 0 /\ hcLast' = NoResponse /\ hcFails' = 0
    /\ UNCHANGED hcResult

\* deploy() calls rollback_all() because of a failure in phase ph.
EnterRollback(ph) ==
    /\ pc' = "rb_loop"
    /\ rbIdx' = 0
    /\ rollbacks' = rollbacks + 1
    /\ failPhase' = ph
    /\ failIdx' = i

(* ------------------------------------------------------------ __init__ *)

\* Deployer.__init__: self.current_version = self._detect_current_version(),
\* one GET / on port 8081; then main() calls deploy().
DeployerInit ==
    /\ pc = "construct"
    /\ \E resp \in RootResponses :
         /\ detectResp' = resp
         /\ current_version' = _detect_current_version(resp)
    /\ detections' = detections + 1
    /\ pc' = "loop"
    /\ UNCHANGED << version, failure_rate, deployed_regions,
                    i, check, rbIdx, ret, hc,
                    rbCmds, rbFailed, rollbacks, startOK, readback, healthOK,
                    probed, started, canaryProbes, canaryDelays, canaryRegions,
                    canaryPassed, failPhase, failIdx, allOK, lastCmd, stp >>

(* ------------------------------------------------------- deploy_region *)

\* for i, region in enumerate(self.regions): deploy_region(region) is entered.
LoopNext ==
    /\ pc = "loop" /\ i < Len(regions)
    /\ pc' = "dr_stop"
    /\ UNCHANGED << version, failure_rate, current_version, deployed_regions,
                    i, check, rbIdx, ret, hc, obs >>

\* docker compose rm -sf <region>: run without check=True, so its exit code is
\* ignored; an OSError is not a CalledProcessError and leaves deploy().
DrStop ==
    /\ pc = "dr_stop"
    /\ stopped' = stopped \cup {region}
    /\ \E o \in CmdOutcomes :
         /\ allOK' = (allOK /\ o = "ok")
         /\ stopFailedNow' = (o # "ok")
         /\ IF o = "oserror"
              THEN Raise
              ELSE pc' = "dr_start" /\ UNCHANGED ret
    /\ UNCHANGED << version, failure_rate, current_version, deployed_regions,
                    i, check, rbIdx, hc,
                    rbCmds, rbFailed, rollbacks, startOK, readback, healthOK,
                    probed, started, canaryProbes, canaryDelays, canaryRegions,
                    canaryPassed, failPhase, failIdx, lastCmd, det >>

\* docker compose up -d --no-deps --force-recreate <region> with check=True,
\* then time.sleep(8).  A non-zero exit raises CalledProcessError, which
\* deploy_region turns into return False.
DrStart ==
    /\ pc = "dr_start"
    /\ started' = started \cup {region}
    /\ lastCmd' = StartCmd(region, version, StrRate(failure_rate))
    /\ \E o \in CmdOutcomes :
         /\ allOK' = (allOK /\ o = "ok")
         /\ startOK' = IF o = "ok" THEN startOK \cup {region} ELSE startOK
         /\ CASE o = "ok"      -> pc' = "dr_verify" /\ UNCHANGED << ret, failPhase >>
              [] o = "nonzero" -> pc' = "dr_false" /\ failPhase' = "start" /\ UNCHANGED ret
              [] o = "oserror" -> Raise /\ UNCHANGED failPhase
    /\ UNCHANGED << version, failure_rate, current_version, deployed_regions,
                    i, check, rbIdx, hc,
                    rbCmds, rbFailed, rollbacks, readback, healthOK,
                    probed, canaryProbes, canaryDelays, canaryRegions,
                    canaryPassed, failIdx,
                    det, stp >>

\* actual_version = resp.json().get('version'): None when the field is absent.
ActualVersion(resp) == IF resp.version = "absent" THEN "None" ELSE resp.version

\* The read-back compared with self.current_version instead of self.version.
VersionMismatchCurrent(resp) ==
    resp.kind = "json" /\ ActualVersion(resp) # current_version

\* The read-back's exception treated like a mismatch.
VersionMismatchOrError(resp) ==
    resp.kind # "json" \/ ActualVersion(resp) # version

\* The version read-back reports a version other than self.version.
VersionMismatch(resp) == resp.kind = "json" /\ ActualVersion(resp) # version

\* Verify version: a mismatch returns False; an exception of the read-back is
\* caught, printed as a warning, and deploy_region returns True.
DrVerify ==
    /\ pc = "dr_verify"
    /\ \E resp \in RootResponses :
         /\ allOK' = (allOK /\ resp.kind = "json" /\ ~VersionMismatch(resp))
         /\ readback' = [readback EXCEPT ![region] =
                           CASE resp.kind # "json"                -> "error"
                             [] ActualVersion(resp) = version     -> "match"
                             [] OTHER                             -> "mismatch"]
         /\ IF VersionMismatch(resp)
              THEN /\ pc' = "dr_false"
                   /\ failPhase' = "mismatch"
              ELSE /\ pc' = "dr_true"
                   /\ UNCHANGED failPhase
    /\ UNCHANGED << version, failure_rate, current_version, deployed_regions,
                    i, check, rbIdx, ret, hc,
                    rbCmds, rbFailed, rollbacks, startOK, healthOK,
                    probed, started, canaryProbes, canaryDelays, canaryRegions,
                    canaryPassed, failIdx, lastCmd,
                    det, stp >>

(* -------------------------------------------------------------- deploy *)

\* if not self.deploy_region(region): self.rollback_all()
DeployFailed ==
    /\ pc = "dr_false"
    /\ EnterRollback(failPhase)
    /\ UNCHANGED << version, failure_rate, current_version, deployed_regions,
                    i, check, ret, hc,
                    rbCmds, rbFailed, startOK, readback, healthOK,
                    probed, started, canaryProbes, canaryDelays, canaryRegions,
                    canaryPassed, allOK, lastCmd,
                    det, stp >>

\* Lines 172-176 of deploy() with deployed_regions becoming newList.
AppendAndCheck(newList) ==
    /\ pc = "dr_true"
    /\ deployed_regions' = newList
    /\ probed' = probed \cup {region}
    /\ CallHealthCheck(region, DefaultRetries, "main")
    /\ UNCHANGED << version, failure_rate, current_version,
                    i, check, rbIdx, ret,
                    rbCmds, rbFailed, rollbacks, startOK, readback, healthOK,
                    started, canaryProbes, canaryDelays, canaryRegions,
                    canaryPassed, failPhase, failIdx, allOK, lastCmd,
                    det, stp >>

\* The region put at the head of the list: self.deployed_regions.insert(0, region).
AppendRegionFront == AppendAndCheck(<< region >> \o deployed_regions)

\* The health check called without the region having been appended.
AppendRegionOmitted == AppendAndCheck(deployed_regions)

\* self.deployed_regions.append(region), then health_check(region) is called
\* with the default retries.
AppendRegion == AppendAndCheck(Append(deployed_regions, region))

(* -------------------------------------------------------- health_check *)

\* One pass of the loop body: GET /health, return True when healthy.
HcAttempt ==
    /\ pc = "hc_attempt" /\ attempt < retries
    /\ \E resp \in HealthResponses :
         /\ hcLast' = resp
         /\ hcProbes' = hcProbes + 1
         /\ allOK' = (allOK /\ AttemptHealthy(resp))
         /\ IF AttemptHealthy(resp)
              THEN hcResult' = TRUE /\ pc' = HcReturnPc /\ UNCHANGED hcFails
              ELSE pc' = "hc_sleep" /\ hcFails' = hcFails + 1 /\ UNCHANGED hcResult
    /\ UNCHANGED << version, failure_rate, current_version, deployed_regions,
                    i, check, rbIdx, ret,
                    hcRegion, retries, attempt, hcCaller, hcDelays,
                    rbCmds, rbFailed, rollbacks, startOK, readback, healthOK,
                    probed, started, canaryProbes, canaryDelays, canaryRegions,
                    canaryPassed, failPhase, failIdx, lastCmd,
                    det, stp >>

\* time.sleep(2) at the end of the loop body, then the next value of range().
HcSleep ==
    /\ pc = "hc_sleep"
    /\ hcDelays' = hcDelays + 1
    /\ attempt' = attempt + 1
    /\ pc' = "hc_attempt"
    /\ UNCHANGED << version, failure_rate, current_version, deployed_regions,
                    i, check, rbIdx, ret,
                    hcRegion, retries, hcCaller, hcResult, hcProbes, hcLast, hcFails, obs >>

\* range(retries) is used up: return False.
HcExhausted ==
    /\ pc = "hc_attempt" /\ attempt >= retries
    /\ hcResult' = FALSE
    /\ pc' = HcReturnPc
    /\ UNCHANGED << version, failure_rate, current_version, deployed_regions,
                    i, check, rbIdx, ret,
                    hcRegion, retries, attempt, hcCaller, hcProbes, hcDelays,
                    hcLast, hcFails, obs >>

(* ------------------------------------------------ deploy, after health *)

\* A failed health check that is only reported: the loop goes on.
HealthFailedContinues ==
    /\ pc = "after_hc" /\ ~hcResult
    /\ pc' = "region_done"
    /\ UNCHANGED << version, failure_rate, current_version, deployed_regions,
                    i, check, rbIdx, ret, hc, obs >>

\* if not self.health_check(region): self.rollback_all()
HealthFailed ==
    /\ pc = "after_hc" /\ ~hcResult
    /\ EnterRollback("health")
    /\ UNCHANGED << version, failure_rate, current_version, deployed_regions,
                    i, check, ret, hc,
                    rbCmds, rbFailed, startOK, readback, healthOK,
                    probed, started, canaryProbes, canaryDelays, canaryRegions,
                    canaryPassed, allOK, lastCmd,
                    det, stp >>

\* The canary test written i >= 0.
IsCanaryRegionAny == i >= 0

\* if i == 0: the first region gets the canary monitoring.
IsCanaryRegion == i = 0

\* The health check passed: if i == 0 the canary loop starts, otherwise the
\* region is done.
HealthPassed ==
    /\ pc = "after_hc" /\ hcResult
    /\ healthOK' = healthOK \cup {region}
    /\ IF IsCanaryRegion
         THEN /\ pc' = "canary_loop"
              /\ check' = 0
              /\ canaryRegions' = canaryRegions \cup {region}
         ELSE /\ pc' = "region_done"
              /\ UNCHANGED << check, canaryRegions >>
    /\ UNCHANGED << version, failure_rate, current_version, deployed_regions,
                    i, rbIdx, ret, hc,
                    rbCmds, rbFailed, rollbacks, startOK, readback,
                    probed, started, canaryProbes, canaryDelays,
                    canaryPassed, failPhase, failIdx, allOK, lastCmd,
                    det, stp >>

\* for check in range(5): time.sleep(2); health_check(region, retries=1)
CanaryLoop ==
    /\ pc = "canary_loop" /\ check < CanaryChecks
    /\ canaryDelays' = canaryDelays + 1
    /\ canaryProbes' = canaryProbes + 1
    /\ CallHealthCheck(region, CanaryRetries, "canary")
    /\ UNCHANGED << version, failure_rate, current_version, deployed_regions,
                    i, check, rbIdx, ret,
                    rbCmds, rbFailed, rollbacks, startOK, readback, healthOK,
                    probed, started, canaryRegions,
                    canaryPassed, failPhase, failIdx, allOK, lastCmd,
                    det, stp >>

\* A canary probe returned True: next value of range(5).
CanaryProbeOK ==
    /\ pc = "after_canary" /\ hcResult
    /\ check' = check + 1
    /\ pc' = "canary_loop"
    /\ UNCHANGED << version, failure_rate, current_version, deployed_regions,
                    i, rbIdx, ret, hc, obs >>

\* A canary probe returned False: self.rollback_all()
CanaryFailed ==
    /\ pc = "after_canary" /\ ~hcResult
    /\ EnterRollback("canary")
    /\ UNCHANGED << version, failure_rate, current_version, deployed_regions,
                    i, check, ret, hc,
                    rbCmds, rbFailed, startOK, readback, healthOK,
                    probed, started, canaryProbes, canaryDelays, canaryRegions,
                    canaryPassed, allOK, lastCmd,
                    det, stp >>

\* range(5) is used up: "Canary validation successful".
CanaryDone ==
    /\ pc = "canary_loop" /\ check >= CanaryChecks
    /\ canaryPassed' = TRUE
    /\ pc' = "region_done"
    /\ UNCHANGED << version, failure_rate, current_version, deployed_regions,
                    i, check, rbIdx, ret, hc,
                    rbCmds, rbFailed, rollbacks, startOK, readback, healthOK,
                    probed, started, canaryProbes, canaryDelays, canaryRegions,
                    failPhase, failIdx, allOK, lastCmd,
                    det, stp >>

\* "<region> deployed successfully": the loop moves to the next region.
RegionDone ==
    /\ pc = "region_done"
    /\ i' = i + 1
    /\ pc' = "loop"
    /\ stopFailedNow' = FALSE
    /\ UNCHANGED << version, failure_rate, current_version, deployed_regions,
                    check, rbIdx, ret, hc,
                    rbCmds, rbFailed, rollbacks, startOK, readback, healthOK,
                    probed, started, canaryProbes, canaryDelays, canaryRegions,
                    canaryPassed, failPhase, failIdx, allOK, lastCmd,
                    det, stopped >>

\* The loop over self.regions is over: return True.
DeployComplete ==
    /\ pc = "loop" /\ i >= Len(regions)
    /\ ret' = "True"
    /\ pc' = "done"
    /\ UNCHANGED << version, failure_rate, current_version, deployed_regions,
                    i, check, rbIdx, hc, obs >>

(* -------------------------------------------------------- rollback_all *)

\* The rollback version read again from port 8081 when rollback starts, where
\* the run itself may have deployed the target version.
RollbackVersionRedetected ==
    IF regions[1] \in startOK THEN version ELSE current_version

\* env['VERSION'] = self.current_version
RollbackVersion == current_version

\* One pass of "for region in self.deployed_regions": docker compose up with
\* VERSION=self.current_version and FAILURE_RATE='0.0', no check=True, then
\* time.sleep(5).  The exit code is ignored; an OSError leaves rollback_all
\* and deploy().
RbCmd ==
    /\ pc = "rb_loop" /\ rbIdx < Len(deployed_regions)
    /\ LET r == deployed_regions[rbIdx + 1] IN
         /\ rbCmds' = Append(rbCmds, StartCmd(r, RollbackVersion, "0.0"))
         /\ lastCmd' = StartCmd(r, RollbackVersion, "0.0")
         /\ \E o \in CmdOutcomes :
              /\ allOK' = (allOK /\ o = "ok")
              /\ rbFailed' = IF o = "ok" THEN rbFailed ELSE rbFailed \cup {r}
              /\ IF o = "oserror"
                   THEN Raise /\ UNCHANGED rbIdx
                   ELSE /\ rbIdx' = rbIdx + 1
                        /\ UNCHANGED << pc, ret >>
    /\ UNCHANGED << version, failure_rate, current_version, deployed_regions,
                    i, check, hc,
                    rollbacks, startOK, readback, healthOK,
                    probed, started, canaryProbes, canaryDelays, canaryRegions,
                    canaryPassed, failPhase, failIdx,
                    det, stp >>

\* rollback_all returns and deploy() goes on with its loop (no return False).
RbReturnContinues ==
    /\ pc = "rb_loop" /\ rbIdx >= Len(deployed_regions)
    /\ pc' = "region_done"
    /\ UNCHANGED << version, failure_rate, current_version, deployed_regions,
                    i, check, rbIdx, ret, hc, obs >>

\* rollback_all returns; deploy() returns False.
RbReturn ==
    /\ pc = "rb_loop" /\ rbIdx >= Len(deployed_regions)
    /\ ret' = "False"
    /\ pc' = "done"
    /\ UNCHANGED << version, failure_rate, current_version, deployed_regions,
                    i, check, rbIdx, hc, obs >>

(* ------------------------------------------------------ specifications *)

Next ==
    \/ DeployerInit
    \/ LoopNext \/ DrStop \/ DrStart \/ DrVerify
    \/ DeployFailed \/ AppendRegion
    \/ HcAttempt \/ HcSleep \/ HcExhausted
    \/ HealthFailed \/ HealthPassed
    \/ CanaryLoop \/ CanaryProbeOK \/ CanaryFailed \/ CanaryDone
    \/ RegionDone \/ DeployComplete
    \/ RbCmd \/ RbReturn

\* One run of deploy() on a freshly constructed Deployer.
Spec == Init /\ [][Next]_vars

\* health_check(region, retries) called on its own, for every region and every
\* retries in 0..MaxRetries.
InitHC ==
    /\ version \in TargetVersions
    /\ failure_rate = 0
    /\ deployed_regions = << >>
    /\ current_version = "v1"
    /\ detectResp = NoRoot /\ detections = 0
    /\ pc = "hc_attempt" /\ i = 0 /\ check = 0 /\ rbIdx = 0 /\ ret = "none"
    /\ hcRegion \in RegionSet /\ retries \in 0..MaxRetries /\ attempt = 0
    /\ hcCaller = "test" /\ hcResult = FALSE
    /\ hcProbes = 0 /\ hcDelays = 0 /\ hcLast = NoResponse /\ hcFails = 0
    /\ InitObs

NextHC == HcAttempt \/ HcSleep \/ HcExhausted

SpecHC == InitHC /\ [][NextHC]_vars

(* -------------------------------------------------------------- claims *)

\* The set of elements of a sequence.
Range(q) == {q[k] : k \in 1..Len(q)}

\* The regions of a sequence of start commands, in order.
CmdRegions(q) == [k \in 1..Len(q) |-> q[k].region]

\* The first n configured regions, in configured order.
Prefix(n) == SubSeq(regions, 1, n)

\* rollback_all has been entered.
RollbackEntered == rollbacks > 0

\* The commands rollback_all issues when it runs over all of deployed_regions.
FullRollback ==
    [k \in 1..Len(deployed_regions) |->
        StartCmd(deployed_regions[k], current_version, "0.0")]

\* C1: every run of deploy() ends either by returning True with no rollback
\* executed and every configured region in deployed_regions, or by returning
\* False with rollback_all executed; there is no third way for a run to end.
C1_TwoEndings ==
    pc = "done" =>
        \/ ret = "True" /\ ~RollbackEntered /\ deployed_regions = regions
        \/ ret = "False" /\ RollbackEntered /\ rbIdx = Len(deployed_regions)

C4_RollbackCommands ==
    (pc = "done" /\ RollbackEntered) => rbCmds = FullRollback

\* C5: when a rollback command fails, rollback_all still issues the command of
\* every later region exactly once, does not raise, and deploy() returns False.
C5_BestEffort ==
    (pc = "done" /\ rbFailed # {}) =>
        /\ ret = "False"
        /\ CmdRegions(rbCmds) = deployed_regions

\* C6: health_check(region, retries = n) probes sequentially and stops at the
\* first success: it returns True after exactly k probes when the k-th
\* (k <= n) is the first healthy one, and False after exactly n probes when
\* none is.  A probe is healthy only when the call did not raise, the status
\* code is 200 and the status field is "healthy".
C6_HealthCheck ==
    LET healthy == hcLast.kind = "json" /\ hcLast.status_code = 200
                     /\ hcLast.status = "healthy"
    IN
    /\ hcProbes <= retries
    /\ pc = "hc_sleep" => ~healthy /\ hcFails = hcProbes
    /\ (hcProbes > 0 /\ healthy) => (pc = "hc_returned" /\ hcResult)
    /\ pc = "hc_returned" =>
         IF hcResult
           THEN healthy /\ hcProbes = hcFails + 1
           ELSE hcProbes = retries /\ hcFails = retries /\ ~(retries > 0 /\ healthy)

\* health_check(retries = 3) returned True on its third probe, after two
\* failed ones.
C6_Witness ==
    /\ pc = "hc_returned" /\ hcResult
    /\ retries = 3 /\ hcProbes = 3 /\ hcFails = 2

\* C7: the canary branch is taken for the region of index 0 only, after its
\* post-deploy health check returned True; every canary probe is one
\* health_check with retries = 1 preceded by one delay, a passed canary is
\* exactly 5 of them, and no region of index > 0 makes a canary probe.
C7_Canary ==
    /\ canaryRegions \subseteq {regions[1]}
    /\ canaryProbes > 0 => regions[1] \in healthOK
    /\ canaryDelays = canaryProbes
    /\ canaryProbes <= 5
    /\ hcCaller = "canary" =>
         /\ retries = 1 /\ hcRegion = regions[1] /\ hcProbes <= 1
         /\ pc = "after_canary" => hcProbes = 1
         /\ pc \in {"hc_attempt", "hc_sleep", "after_canary"} => i = 0
    /\ canaryPassed => canaryProbes = 5
    /\ i > 0 => (canaryPassed /\ canaryProbes = 5)

\* A complete run: the canary passed and the other regions went through.
C7_Witness ==
    /\ pc = "done" /\ ret = "True"
    /\ canaryPassed /\ canaryProbes = 5 /\ canaryDelays = 5
    /\ canaryRegions = {regions[1]}

\* C8: when a canary probe fails no further canary probe is made, no other
\* region is deployed, rollback runs over exactly the first region, and
\* deploy() returns False.
C8_CanaryFailure ==
    (pc = "done" /\ failPhase = "canary") =>
        /\ canaryProbes = check + 1
        /\ started = {regions[1]}
        /\ deployed_regions = << regions[1] >>
        /\ CmdRegions(rbCmds) = << regions[1] >>
        /\ ret = "False"

\* C9: when the version read-back of the region at index failIdx reports
\* another version, that region gets no health probe and is not appended,
\* rollback runs over exactly the regions before it, and deploy() returns
\* False.
C9_VersionMismatch ==
    (pc = "done" /\ failPhase = "mismatch") =>
        /\ regions[failIdx + 1] \notin probed
        /\ regions[failIdx + 1] \notin Range(deployed_regions)
        /\ CmdRegions(rbCmds) = Prefix(failIdx)
        /\ ret = "False"

\* C10: when every command, read-back, health probe and canary probe succeeds,
\* deploy() returns True, deployed_regions is the configured list in its
\* order (4 regions) and no rollback command is issued.
C10_FullSuccess ==
    (pc = "done" /\ allOK) =>
        /\ ret = "True"
        /\ deployed_regions = regions
        /\ Len(deployed_regions) = 4
        /\ rbCmds = << >>
        /\ ~RollbackEntered

\* The run in which nothing failed has ended.
C10_Witness ==
    /\ pc = "done" /\ allOK
    /\ healthOK = RegionSet
    /\ \A r \in RegionSet : readback[r] = "match"

\* C11: _detect_current_version returns the version field of the reference
\* region's answer when the probe succeeds and the field is there, and 'v1'
\* when the probe raises, the body is malformed or the field is missing;
\* construction always goes on to deploy(), and a run fails only because of
\* a failed step of deploy(), never because detection failed.
C11_Detection ==
    /\ pc # "construct" => detections = 1
    /\ detections > 0 =>
         current_version =
            IF detectResp.kind = "json" /\ detectResp.version \in Versions
              THEN detectResp.version
              ELSE "v1"
    /\ (pc = "done" /\ allOK) => ret = "True"
    /\ ret = "False" => (~allOK /\ failPhase # "none")

\* A run that returned True although the detection probe raised.
C11_Witness ==
    /\ pc = "done" /\ ret = "True"
    /\ detectResp.kind = "error"
    /\ current_version = "v1"

\* C12: whatever the external calls do, deploy() ends by returning a plain
\* boolean; no exception leaves it.
C12_PlainBoolean ==
    pc = "done" => ret \in {"True", "False"}

\* C13: a failed stop or start command of the current region aborts the
\* region at once: no start command after a failed stop, no version
\* read-back, no health probe, no append, and the run goes to rollback.
C13_LifecycleFailure ==
    (pc \notin {"construct", "loop"} /\ i < Len(regions)
       /\ (stopFailedNow \/ (region \in started /\ region \notin startOK))) =>
        /\ stopFailedNow => region \notin started
        /\ readback[region] = "none"
        /\ region \notin probed
        /\ region \notin Range(deployed_regions)
        /\ pc \in {"dr_false", "rb_loop", "done"}
        /\ pc = "done" => RollbackEntered

\* C14 as stated: a region whose version read-back raised is never health
\* checked nor appended to deployed_regions.
C14_ReadbackErrorOriginal ==
    \A r \in RegionSet :
        readback[r] = "error" =>
            /\ r \notin probed
            /\ r \notin Range(deployed_regions)
            /\ pc # "dr_true"

\* C14 amended: a read-back that raised is not a failure of the region:
\* deploy_region returns True, the region is appended and health checked.
\* Only a read-back that answers with another version than the target stops
\* the region before its health check and sends the run to rollback.
C14_ReadbackError ==
    /\ \A r \in RegionSet :
         /\ readback[r] = "error" =>
              \/ pc = "dr_true" /\ r = region
              \/ r \in Range(deployed_regions) /\ r \in probed
         /\ readback[r] = "mismatch" =>
              /\ r \notin Range(deployed_regions) /\ r \notin probed
              /\ r = region
              /\ failPhase = "mismatch"
              /\ pc \in {"dr_false", "rb_loop", "done"}
    /\ (RollbackEntered /\ failPhase = "mismatch") =>
          readback[regions[failIdx + 1]] = "mismatch"

\* A run that returned True although no region's version could be read back.
C14_Witness ==
    /\ pc = "done" /\ ret = "True"
    /\ \A r \in RegionSet : readback[r] = "error"
    /\ deployed_regions = regions

\* C15: a health_check that made k probes slept exactly k - 1 times: no
\* delay follows its final probe.
C15_Delays ==
    pc = "hc_returned" =>
        hcDelays = IF hcProbes = 0 THEN 0 ELSE hcProbes - 1

\* A position of the forward pass: deploy_region, health check, canary.
ForwardPc ==
    {"loop", "dr_stop", "dr_start", "dr_verify", "dr_true", "dr_false",
     "hc_attempt", "hc_sleep", "after_hc", "canary_loop", "after_canary",
     "region_done"}

\* C16: regions are processed one at a time in configured order: a region of
\* index N gets a stop or start command only after the health check of the
\* region of index N - 1 returned True and, when N - 1 is 0, after all 5
\* canary probes returned True.
C16_Ordering ==
    /\ started \subseteq stopped
    /\ stopped \subseteq {regions[n] : n \in 1..Len(regions)}
    /\ \A n \in 2..Len(regions) :
         regions[n] \in stopped =>
            /\ regions[n - 1] \in healthOK
            /\ regions[n - 1] \in stopped
            /\ n - 1 = 1 => (canaryPassed /\ canaryProbes = 5)
    /\ (pc \in {"hc_attempt", "hc_sleep", "after_hc", "after_canary"}) =>
          (hcRegion = region /\ \A n \in (i + 2)..Len(regions) : regions[n] \notin stopped)

\* The last region has been started, the three before it are healthy.
C16_Witness ==
    /\ regions[4] \in started
    /\ {regions[1], regions[2], regions[3]} \subseteq healthOK
    /\ canaryPassed

\* C17: rollback_all is entered at most once, and once it has been entered
\* no forward-pass step (stop or start command with the target version,
\* version read-back, health probe, canary probe) runs again, also when a
\* rollback command fails.
C17_RollbackOnce ==
    [][ /\ rollbacks' <= 1
        /\ RollbackEntered =>
             /\ rollbacks' = rollbacks
             /\ pc' \notin ForwardPc
             /\ started' = started /\ stopped' = stopped
             /\ readback' = readback /\ probed' = probed
             /\ hcProbes' = hcProbes /\ canaryProbes' = canaryProbes
             /\ lastCmd' # lastCmd =>
                  (lastCmd'.FAILURE_RATE = "0.0" /\ lastCmd' = rbCmds'[Len(rbCmds')])
      ]_vars

\* A rollback over two regions whose commands failed has returned.
C17_Witness ==
    /\ pc = "done" /\ ret = "False"
    /\ rollbacks = 1
    /\ Len(rbCmds) = 2 /\ Cardinality(rbFailed) = 2

\* C18: deployed_regions changes only by an append at its end, during the
\* forward pass; rollback_all leaves deployed_regions, version, failure_rate
\* and current_version unchanged.
C18_AppendOnly ==
    [][ /\ \/ deployed_regions' = deployed_regions
           \/ /\ ~RollbackEntered
              /\ pc \in ForwardPc
              /\ \E r \in RegionSet : deployed_regions' = Append(deployed_regions, r)
        /\ RollbackEntered =>
             /\ deployed_regions' = deployed_regions
             /\ version' = version
             /\ failure_rate' = failure_rate
             /\ current_version' = current_version
      ]_vars

\* rollback_all at work on a list of three regions.
C18_Witness ==
    /\ pc = "rb_loop"
    /\ Len(deployed_regions) = 3
    /\ Len(rbCmds) = 2

\* The version the answer to the constructor's GET / stands for.
DetectedAtConstruction ==
    IF detectResp.kind = "json" /\ detectResp.version \in Versions
      THEN detectResp.version
      ELSE "v1"

\* C19: the rollback version is detected exactly once, before any lifecycle
\* command, and never detected again or reassigned: every rollback command
\* carries the version detected at construction, not one deployed by the run.
C19_ResolvedOnce ==
    /\ [](/\ detections <= 1
          /\ (stopped # {} \/ started # {} \/ rbCmds # << >>) => detections = 1
          /\ \A k \in 1..Len(rbCmds) : rbCmds[k].VERSION = DetectedAtConstruction)
    /\ [][ detections > 0 =>
             (current_version' = current_version /\ detections' = detections
                /\ detectResp' = detectResp) ]_vars

\* A finished rollback to a detected version that is not the target, after
\* the first region had been given the target version.
C19_Witness ==
    /\ pc = "done" /\ ret = "False"
    /\ detectResp.kind = "json"
    /\ current_version # version
    /\ regions[1] \in startOK
    /\ rbCmds # << >>

\* C20: the only states in which a run has stopped are COMPLETE (deploy()
\* returned True) and FAILED (deploy() returned False after rollback).
C20_TerminalStates ==
    ~(ENABLED Next) =>
        /\ pc = "done"
        /\ \/ ret = "True" /\ ~RollbackEntered
           \/ ret = "False" /\ RollbackEntered

\* The steps of deploy() are taken as long as one is possible: every external
\* call returns.
SpecFair == Spec /\ WF_vars(Next)

\* Every run stops.
Terminates == <>(pc = "done")

====
